---- MODULE Spec2Model ----
(***************************************************************************)
(* row_hasher.py: the streaming per-row MD5 appender of python-pantry.     *)
(*                                                                         *)
(* One run of row_hasher(input_file, output_file, delimiter, column_name)  *)
(* as started by the command line of the script.  A record is the list of  *)
(* cells csv.reader yields for one row and csv.writer receives for one     *)
(* row; the input file is the sequence of records its reader yields, the   *)
(* output file the sequence of records written to it.  The file system     *)
(* decides whether each open() succeeds and whether a read or a write      *)
(* raises.                                                                 *)
(***************************************************************************)
EXTENDS Integers, Sequences, FiniteSets, TLC

\* ------------------------------------------------------------------ bounds

\* The longest input file, in records (the header included).
MaxRecords == 3

\* ------------------------------------------------------ the inputs of a run

input_file == "in.csv"
output_file == "out.csv"

\* The values of the -d/--delimiter option (choices=[',', 'tab']).
Selectors == {",", "tab"}

\* The values of --column-name tried: the default and another one.
ColumnNames == {"row_id", "id"}

\* The records a reader yields: an empty row (a blank line), rows of one, two
\* and three cells, and single cells that hold a delimiter (quoted in the file).
Records ==
    { <<>>, <<"a">>, <<"a", "b">>, <<"a,b">>, <<"a\tb">>, <<"a", "b", "a">> }

\* The input files: every sequence of at most MaxRecords records.
Files == UNION { [1..n -> Records] : n \in 0..MaxRecords }

\* What the output path held before the run, when it existed.
OldContent == << <<"old">> >>

\* The value of a local variable that is not bound yet.
NoRecord == << "<unbound>" >>
NoHash == "<unbound>"

\* -------------------------------------------------------------- hash_row

\* str.join: the values in order, the delimiter between each two.
RECURSIVE join(_, _)
join(delimiter, values) ==
    IF Len(values) = 0 THEN ""
    ELSE IF Len(values) = 1 THEN values[1]
    ELSE values[1] \o delimiter \o join(delimiter, Tail(values))

\* hashlib.md5(joined.encode('utf-8')).hexdigest(): the MD5 digests of the
\* strings the records above join to, as hashlib computes them.
md5_hexdigest(joined) ==
    CASE joined = ""          -> "d41d8cd98f00b204e9800998ecf8427e"
      [] joined = "a"         -> "0cc175b9c0f1b6a831c399e269772661"
      [] joined = "a,b"       -> "b345e1dc09f20fdefdea469f09167892"
      [] joined = "a\tb"      -> "6f7f0b434651658d5d07ec3764180020"
      [] joined = "a,b,a"     -> "8fdd00325bceacca2eef13cd5fe89418"
      [] joined = "a\tb\ta"   -> "51cfcea2dc88d9baff201d447d2316df"

\* (A variant: only the first cell is hashed.)
hash_row_first_cell(values, delimiter) ==
    md5_hexdigest(IF Len(values) = 0 THEN "" ELSE values[1])

\* (A variant: the join always uses a comma.)
hash_row_comma(values, delimiter) == md5_hexdigest(join(",", values))

hash_row(values, delimiter) == md5_hexdigest(join(delimiter, values))

\* __main__: the delimiter the selector stands for.
delim(sel) == IF sel = "tab" THEN "\t" ELSE sel

\* ------------------------------------------------------------------ state

VARIABLES
    selector,       \* args.delimiter, the value of -d/--delimiter
    delimiter,      \* row_hasher's delimiter argument
    column_name,    \* row_hasher's column_name argument
    fsInput,        \* the input path: "missing", "denied" or "readable"
    inputFile,      \* the records of the input file
    fsOutput,       \* opening the output path: "ok", "nodir" or "denied"
    outExists,      \* whether the output path exists
    outFile,        \* the records the output file holds
    outBefore,      \* the output path before the run: [exists, content]
    inOpen,         \* infile is open
    outOpen,        \* outfile is open
    outOpened,      \* open(output_file, 'w') has been called
    pos,            \* the records the reader has yielded
    header,         \* local variable header
    row,            \* local variable row
    row_hash,       \* local variable row_hash
    pc,             \* the statement the run is at
    err,            \* the exception that ended the run, or "none"
    raised,         \* the exception left row_hasher to its caller
    stdout,         \* the lines printed
    exit,           \* the process's exit status, or "running"
    log             \* the reads and writes so far: <<"read", k>>, <<"write", k>>

vars == << selector, delimiter, column_name, fsInput, inputFile, fsOutput,
           outExists, outFile, outBefore, inOpen, outOpen, outOpened, pos, header, row,
           row_hash, pc, err, raised, stdout, exit, log >>

config == << selector, delimiter, column_name, fsInput, inputFile, fsOutput,
            outBefore >>
locals == << header, row, row_hash >>
outcome == << err, raised, stdout, exit >>

\* The Stream Pipeline's state at each statement.
Phase ==
    CASE pc \in {"Start", "OpenOutput"}       -> "Start"
      [] pc \in {"ReadHeader", "WriteHeader"} -> "HeaderPending"
      [] pc \in {"ReadRow", "HashRow", "WriteRow"} -> "Streaming"
      [] pc = "Done"                          -> "Done"
      [] pc = "Failed"                        -> "Failed"

Init ==
    /\ selector \in Selectors
    /\ delimiter = delim(selector)
    /\ column_name \in ColumnNames
    /\ fsInput \in {"missing", "denied", "readable"}
    /\ inputFile \in Files
    /\ (fsInput # "readable" => inputFile = <<>>)   \* never read
    /\ fsOutput \in {"ok", "nodir", "denied"}
    /\ outExists \in BOOLEAN
    /\ (fsOutput = "nodir" => ~outExists)
    /\ outFile = IF outExists THEN OldContent ELSE <<>>
    /\ outBefore = [exists |-> outExists, content |-> outFile]
    /\ inOpen = FALSE
    /\ outOpen = FALSE
    /\ outOpened = FALSE
    /\ pos = 0
    /\ header = NoRecord
    /\ row = NoRecord
    /\ row_hash = NoHash
    /\ pc = "Start"
    /\ err = "none"
    /\ raised = FALSE
    /\ stdout = <<>>
    /\ exit = "running"
    /\ log = <<>>

\* ------------------------------------------------- leaving the with block

\* A file object's __exit__: whether the handle is open afterwards.
\* (A variant: a handle that is left as it is.)
ExitWithLeak(handle) == handle

ExitWith(handle) == FALSE

\* except FileNotFoundError: the exceptions row_hasher handles itself.
\* (Variants: a handler that also takes StopIteration; no handler.)
CaughtAlsoStopIteration(exc) == exc \in {"FileNotFoundError", "StopIteration"}

CaughtNothing(exc) == FALSE

Caught(exc) == exc = "FileNotFoundError"

\* An exception raised inside the try: the with block releases what it
\* acquired, then the except clause prints and returns, or the exception
\* leaves row_hasher and ends the process.
Fail(exc) ==
    /\ inOpen' = ExitWith(inOpen)
    /\ outOpen' = ExitWith(outOpen)
    /\ pc' = "Failed"
    /\ err' = exc
    /\ raised' = ~Caught(exc)
    /\ stdout' = IF Caught(exc)
                 THEN Append(stdout, "File not found: " \o input_file)
                 ELSE stdout
    /\ exit' = IF Caught(exc) THEN "0" ELSE "1"

\* The exception open() raises for a path in the given state.
OpenError(fs) ==
    IF fs \in {"missing", "nodir"} THEN "FileNotFoundError" ELSE "PermissionError"

\* ---------------------------------------------------------------- actions

\* open(input_file, 'r', ...) succeeds.
OpenInput ==
    /\ pc = "Start"
    /\ fsInput = "readable"
    /\ inOpen' = TRUE
    /\ pc' = "OpenOutput"
    /\ UNCHANGED << config, outExists, outFile, outOpen, outOpened, pos,
                    locals, outcome, log >>

\* (A variant: the output path is opened before the input path.)
OpenInputFailsAfterOutput ==
    /\ pc = "Start"
    /\ fsInput # "readable"
    /\ outOpened' = TRUE
    /\ outExists' = (fsOutput = "ok" \/ outExists)
    /\ outFile' = IF fsOutput = "ok" THEN <<>> ELSE outFile
    /\ Fail(OpenError(fsInput))
    /\ UNCHANGED << config, pos, locals, log >>

\* open(input_file, 'r', ...) raises: the output path is not touched.
OpenInputFails ==
    /\ pc = "Start"
    /\ fsInput # "readable"
    /\ Fail(OpenError(fsInput))
    /\ UNCHANGED << config, outExists, outFile, outOpened, pos, locals, log >>

\* open(output_file, 'w', ...) succeeds: the file is created or truncated.
OpenOutput ==
    /\ pc = "OpenOutput"
    /\ fsOutput = "ok"
    /\ outOpen' = TRUE
    /\ outOpened' = TRUE
    /\ outExists' = TRUE
    /\ outFile' = <<>>
    /\ pc' = "ReadHeader"
    /\ UNCHANGED << config, inOpen, pos, locals, outcome, log >>

\* open(output_file, 'w', ...) raises: infile is released.
OpenOutputFails ==
    /\ pc = "OpenOutput"
    /\ fsOutput # "ok"
    /\ outOpened' = TRUE
    /\ Fail(OpenError(fsOutput))
    /\ UNCHANGED << config, outExists, outFile, pos, locals, log >>

\* (A variant: an input with no record ends the run as a success.)
ReadHeaderEmptyDone ==
    /\ pc = "ReadHeader"
    /\ pos = Len(inputFile)
    /\ inOpen' = ExitWith(inOpen)
    /\ outOpen' = ExitWith(outOpen)
    /\ stdout' = Append(stdout, "Hashed file created at " \o output_file)
    /\ exit' = "0"
    /\ pc' = "Done"
    /\ UNCHANGED << config, outExists, outFile, outOpened, pos, locals, err,
                    raised, log >>

\* header = next(reader) on a reader with no record: StopIteration.
ReadHeaderEmpty ==
    /\ pc = "ReadHeader"
    /\ pos = Len(inputFile)
    /\ Fail("StopIteration")
    /\ UNCHANGED << config, outExists, outFile, outOpened, pos, locals, log >>

\* header = next(reader)
ReadHeader ==
    /\ pc = "ReadHeader"
    /\ pos < Len(inputFile)
    /\ header' = inputFile[pos + 1]
    /\ pos' = pos + 1
    /\ log' = Append(log, <<"read", pos + 1>>)
    /\ pc' = "WriteHeader"
    /\ UNCHANGED << config, outExists, outFile, inOpen, outOpen, outOpened,
                    row, row_hash, outcome >>

\* header + [column_name]
\* (A variant: the header is hashed like a data row.)
HeaderOutHashed(h, name) == h \o << hash_row(h, delimiter) >>

HeaderOut(h, name) == h \o << name >>

\* writer.writerow(header + [column_name])
WriteHeader ==
    /\ pc = "WriteHeader"
    /\ outFile' = Append(outFile, HeaderOut(header, column_name))
    /\ log' = Append(log, <<"write", pos>>)
    /\ pc' = "ReadRow"
    /\ UNCHANGED << config, outExists, inOpen, outOpen, outOpened, pos,
                    locals, outcome >>

\* (A variant: the reader is drained before any row is written.)
ReadRowAhead ==
    /\ pc = "ReadRow"
    /\ pos < Len(inputFile)
    /\ row' = inputFile[pos + 1]
    /\ pos' = pos + 1
    /\ log' = Append(log, <<"read", pos + 1>>)
    /\ pc' = IF pos + 1 < Len(inputFile) THEN "ReadRow" ELSE "HashRow"
    /\ UNCHANGED << config, outExists, outFile, inOpen, outOpen, outOpened,
                    header, row_hash, outcome >>

\* for row in reader: the reader yields the next record.
ReadRow ==
    /\ pc = "ReadRow"
    /\ pos < Len(inputFile)
    /\ row' = inputFile[pos + 1]
    /\ pos' = pos + 1
    /\ log' = Append(log, <<"read", pos + 1>>)
    /\ pc' = "HashRow"
    /\ UNCHANGED << config, outExists, outFile, inOpen, outOpen, outOpened,
                    header, row_hash, outcome >>

\* (A variant: at the end of the input the loop asks the reader again.)
EndOfInputSpin ==
    /\ pc = "ReadRow"
    /\ pos = Len(inputFile)
    /\ UNCHANGED vars

\* for row in reader: the reader is exhausted; the with block ends and
\* row_hasher prints the output path.
EndOfInput ==
    /\ pc = "ReadRow"
    /\ pos = Len(inputFile)
    /\ inOpen' = ExitWith(inOpen)
    /\ outOpen' = ExitWith(outOpen)
    /\ stdout' = Append(stdout, "Hashed file created at " \o output_file)
    /\ exit' = "0"
    /\ pc' = "Done"
    /\ UNCHANGED << config, outExists, outFile, outOpened, pos, locals, err,
                    raised, log >>

\* (A variant: the digest is computed once and reused.)
HashRowCached ==
    /\ pc = "HashRow"
    /\ row_hash' = IF row_hash = NoHash THEN hash_row(row, delimiter) ELSE row_hash
    /\ pc' = "WriteRow"
    /\ UNCHANGED << config, outExists, outFile, inOpen, outOpen, outOpened,
                    pos, header, row, outcome, log >>

\* row_hash = hash_row(row, delimiter)
HashRow ==
    /\ pc = "HashRow"
    /\ row_hash' = hash_row(row, delimiter)
    /\ pc' = "WriteRow"
    /\ UNCHANGED << config, outExists, outFile, inOpen, outOpen, outOpened,
                    pos, header, row, outcome, log >>

\* row + [row_hash]
\* (A variant: the digest is put first.)
RowOutFirst(r, h) == << h >> \o r

RowOut(r, h) == r \o << h >>

\* writer.writerow(row + [row_hash])
WriteRow ==
    /\ pc = "WriteRow"
    /\ outFile' = Append(outFile, RowOut(row, row_hash))
    /\ log' = Append(log, <<"write", pos>>)
    /\ pc' = "ReadRow"
    /\ UNCHANGED << config, outExists, inOpen, outOpen, outOpened, pos,
                    locals, outcome >>

\* The reader raises on the next record (bytes that are not UTF-8, a
\* csv.Error, a failing read): the exception leaves the with block.
ReadFails ==
    /\ pc \in {"ReadHeader", "ReadRow"}
    /\ pos < Len(inputFile)
    /\ Fail("IOError")
    /\ UNCHANGED << config, outExists, outFile, outOpened, pos, locals, log >>

\* writer.writerow raises (disk full, a failing write): nothing is appended.
WriteFails ==
    /\ pc \in {"WriteHeader", "WriteRow"}
    /\ Fail("IOError")
    /\ UNCHANGED << config, outExists, outFile, outOpened, pos, locals, log >>

Next ==
    \/ OpenInput
    \/ OpenInputFails
    \/ OpenOutput
    \/ OpenOutputFails
    \/ ReadHeaderEmpty
    \/ ReadHeader
    \/ WriteHeader
    \/ ReadRow
    \/ EndOfInput
    \/ HashRow
    \/ WriteRow
    \/ ReadFails
    \/ WriteFails

Spec == Init /\ [][Next]_vars

\* row_hasher is one sequential function with no wait in it: a statement
\* that can run does run.
FairSpec == Spec /\ WF_vars(Next)

\* ------------------------------------------------------------- properties

\* The records this run has written: the output file from the moment
\* open(output_file, 'w') has succeeded.
OutputRecords == IF outOpened /\ fsOutput = "ok" THEN outFile ELSE <<>>

Terminal == pc \in {"Done", "Failed"}

\* record[:-1]
AllButLast(record) == SubSeq(record, 1, Len(record) - 1)

\* C1: every record written, header or data, whatever its cell count, is
\* the record read at the same position with exactly one cell appended last.
C1_ColumnAppend ==
    /\ Len(OutputRecords) <= Len(inputFile)
    /\ \A k \in 1..Len(OutputRecords) :
          /\ Len(OutputRecords[k]) = Len(inputFile[k]) + 1
          /\ AllButLast(OutputRecords[k]) = inputFile[k]

\* A finished run over a header, an empty row and a row longer than the header.
C1_Witness ==
    /\ pc = "Done"
    /\ Len(outFile) = 3
    /\ inputFile[2] = <<>>
    /\ Len(inputFile[3]) > Len(inputFile[1])
    /\ Len(inputFile[1]) > 0

\* C2: in a run that reads or writes anything, the first record is read once,
\* written once as the first record with the configured column name (not a
\* digest) appended, and no data record is read, hashed or written before that,
\* whatever the first record holds.
C2_HeaderFirst ==
    /\ Len(log) >= 1 => log[1] = <<"read", 1>>
    /\ Len(log) >= 2 => log[2] = <<"write", 1>>
    /\ \A i \in 3..Len(log) : log[i][2] >= 2
    /\ Len(OutputRecords) >= 1 =>
          /\ header = inputFile[1]
          /\ OutputRecords[1] = inputFile[1] \o << column_name >>
    /\ (row # NoRecord \/ row_hash # NoHash) => Len(OutputRecords) >= 1

\* A finished run whose first record is an empty row, with a column name
\* that is not the default, and with data rows after it.
C2_Witness ==
    /\ pc = "Done"
    /\ Len(outFile) >= 2
    /\ inputFile[1] = <<>>
    /\ column_name = "id"

\* C3: an input that exists and holds no record makes the header step raise
\* (StopIteration, the run's end-of-input error) to the caller, the run is
\* never a success, and nothing is written: the output file is empty.
C3_EmptyInput ==
    (fsInput = "readable" /\ inputFile = <<>>) =>
        /\ pc # "Done"
        /\ Len(log) = 0
        /\ OutputRecords = <<>>
        /\ (pc = "Failed" /\ fsOutput = "ok") =>
              /\ err = "StopIteration"
              /\ raised
              /\ exit = "1"
              /\ stdout = <<>>
              /\ outExists
              /\ outFile = <<>>

\* The header step has failed on an empty input, over an output path that
\* held something before.
C3_Witness ==
    /\ pc = "Failed"
    /\ err = "StopIteration"
    /\ fsInput = "readable"
    /\ inputFile = <<>>
    /\ outBefore.exists

\* C4 as claimed: a missing input path ends the run with an error that
\* reaches the caller, and the process indicates failure.
C4_MissingInputPropagates ==
    (fsInput = "missing" /\ Terminal) =>
        /\ pc = "Failed"
        /\ err = "FileNotFoundError"
        /\ raised
        /\ exit # "0"

\* C4 as the code has it: a missing input path is reported on standard
\* output with the input path, the exception is handled inside row_hasher,
\* which returns normally, and the process ends with status 0.
C4_MissingInputReported ==
    (fsInput = "missing" /\ Terminal) =>
        /\ pc = "Failed"
        /\ err = "FileNotFoundError"
        /\ ~raised
        /\ exit = "0"
        /\ stdout = << "File not found: " \o input_file >>

C4_Witness ==
    /\ fsInput = "missing"
    /\ pc = "Failed"
    /\ fsOutput = "ok"

\* C5: when the input path cannot be opened, the output path is never
\* opened, created or truncated and nothing is written: it is as it was.
C5_OutputUntouched ==
    fsInput # "readable" =>
        /\ ~outOpened
        /\ ~outOpen
        /\ outExists = outBefore.exists
        /\ outFile = outBefore.content
        /\ Len(log) = 0

\* The run has failed on an input that cannot be opened, next to an output
\* path that could have been opened and held something.
C5_Witness ==
    /\ pc = "Failed"
    /\ fsInput = "denied"
    /\ fsOutput = "ok"
    /\ outBefore.exists
    /\ outFile = OldContent

\* C6: both handles are held while the header and the rows are processed,
\* and no terminal state holds an open handle, whichever way the run ended.
C6_HandlesReleased ==
    /\ Phase \in {"HeaderPending", "Streaming"} => (inOpen /\ outOpen)
    /\ pc = "OpenOutput" => inOpen
    /\ Terminal => (~inOpen /\ ~outOpen)

\* A write has failed while streaming, after both handles were acquired.
C6_Witness ==
    /\ pc = "Failed"
    /\ err = "IOError"
    /\ Len(OutputRecords) >= 2
    /\ pos > Len(OutputRecords)

\* The transitions of the Stream Pipeline the state machine names.  A step
\* inside Start, HeaderPending or Streaming stays in its state.
NamedTransition ==
    \/ Phase' = Phase /\ ~Terminal
    \/ Phase = "Start" /\ Phase' = "HeaderPending"
    \/ Phase = "HeaderPending" /\ Phase' = "Streaming"
    \/ Phase = "Streaming" /\ Phase' = "Done" /\ pos = Len(inputFile)
    \/ /\ Phase = "Start" /\ Phase' = "Failed"
       /\ ~inOpen
       /\ err' \in {"FileNotFoundError", "PermissionError"}
    \/ /\ Phase = "HeaderPending" /\ Phase' = "Failed"
       /\ inputFile = <<>>
       /\ err' = "StopIteration"

\* The failures the state machine leaves out: the destination cannot be
\* opened after the source was, and a read or a write raises.
FailureTransition ==
    \/ /\ Phase = "Start" /\ Phase' = "Failed"
       /\ inOpen /\ fsOutput # "ok"
       /\ err' \in {"FileNotFoundError", "PermissionError"}
    \/ /\ Phase \in {"HeaderPending", "Streaming"} /\ Phase' = "Failed"
       /\ err' = "IOError"

\* C7 as claimed: the run follows only the named transitions.
C7_OnlyNamedTransitions == [][NamedTransition]_vars

\* C7 with the failures added: the run follows only the named transitions
\* and the failure transitions; Done is entered only from Streaming at the
\* end of the input, and Done and Failed are left by no step.
C7_Transitions == [][NamedTransition \/ FailureTransition]_vars

\* A row has been streamed and a later read or write has failed.
C7_Witness ==
    /\ pc = "Failed"
    /\ err = "IOError"
    /\ Len(OutputRecords) >= 2

\* C8: reads and writes alternate, record by record, so at most one record
\* has been read and not written, however long the input is, and the only
\* data record the run holds is the one read last.
C8_OneInFlight ==
    /\ pos - Len(OutputRecords) \in {0, 1}
    /\ \A i \in 1..Len(log) :
          log[i] = << IF i % 2 = 1 THEN "read" ELSE "write", (i + 1) \div 2 >>
    /\ Len(log) = pos + Len(OutputRecords)
    /\ pos >= 2 => row = inputFile[pos]
    /\ pos <= 1 => row = NoRecord

\* The last record of a full-length input is in flight: read, not written.
C8_Witness ==
    /\ pc = "WriteRow"
    /\ pos = MaxRecords
    /\ Len(OutputRecords) = MaxRecords - 1

\* row_hasher's output for a whole file that is read and written without
\* a failure: the header with the column name, each row with its digest.
row_hasher_output(file, d, name) ==
    [k \in 1..Len(file) |->
        IF k = 1 THEN HeaderOut(file[1], name)
        ELSE RowOut(file[k], hash_row(file[k], d))]

\* C9: each data record written is the one a run over the header and that
\* record alone writes, and a finished run's output is a function of the
\* input records, the delimiter and the column name only.
C9_NoCoupling ==
    /\ \A k \in 2..Len(OutputRecords) :
          OutputRecords[k] =
              row_hasher_output(<< inputFile[1], inputFile[k] >>,
                                delimiter, column_name)[2]
    /\ pc = "Done" =>
          outFile = row_hasher_output(inputFile, delimiter, column_name)

\* A finished run over two different data rows, over an output path that
\* held something before.
C9_Witness ==
    /\ pc = "Done"
    /\ Len(outFile) = 3
    /\ inputFile[2] # inputFile[3]
    /\ outBefore.exists

OtherDelimiter(d) == IF d = "," THEN "\t" ELSE ","

\* C10: the run's delimiter is the comma, or the tab for the selector tab;
\* the digest of a row is the MD5 of its cells joined with that delimiter,
\* and differs from the digest under the other delimiter whenever the two
\* joined strings differ.
C10_DelimiterInDigest ==
    /\ delimiter = IF selector = "tab" THEN "\t" ELSE ","
    /\ pc = "WriteRow" =>
          /\ row_hash = md5_hexdigest(join(delimiter, row))
          /\ join(",", row) # join("\t", row) =>
                row_hash # md5_hexdigest(join(OtherDelimiter(delimiter), row))
    /\ \A k \in 2..Len(OutputRecords) :
          OutputRecords[k][Len(OutputRecords[k])] =
              md5_hexdigest(join(delimiter, inputFile[k]))

\* A two-cell row has been hashed in a run started with -d tab.
C10_Witness ==
    /\ pc = "WriteRow"
    /\ selector = "tab"
    /\ row = << "a", "b" >>
    /\ row_hash = "6f7f0b434651658d5d07ec3764180020"

\* The line row_hasher prints after the with block.
CreatedLine == "Hashed file created at " \o output_file

\* C11: every run ends, Done or Failed; a run that is Done over a header and
\* N data records has written exactly N + 1 records, and the output path is
\* reported as created in that state only.
C11_Terminates ==
    /\ <>Terminal
    /\ [](pc = "Done" =>
            /\ Len(inputFile) >= 1
            /\ pos = Len(inputFile)
            /\ Len(outFile) = Len(inputFile)
            /\ stdout = << CreatedLine >>)
    /\ [](\A i \in 1..Len(stdout) : stdout[i] = CreatedLine => pc = "Done")

\* A run over a full-length input is Done and has reported the output path.
C11_Witness ==
    /\ pc = "Done"
    /\ Len(inputFile) = MaxRecords
    /\ Len(outFile) = MaxRecords
    /\ stdout = << CreatedLine >>

\* The line row_hasher prints in its except clause.
NotFoundLine == "File not found: " \o input_file

\* C12: the run prints "File not found: <input_file>" only when the input
\* file is what could not be opened; an input that exists next to an output
\* path that cannot be opened is not reported as a missing input.
C12_NotFoundMeansInput ==
    (\E i \in 1..Len(stdout) : stdout[i] = NotFoundLine) =>
        fsInput = "missing"

\* C13: the digest depends on the joined string only: two data records
\* written by one run whose cells join to the same string under the run's
\* delimiter carry the same digest, whatever their cell boundaries.
C13_SameJoinSameDigest ==
    \A j, k \in 2..Len(OutputRecords) :
        join(delimiter, inputFile[j]) = join(delimiter, inputFile[k]) =>
            OutputRecords[j][Len(OutputRecords[j])] =
                OutputRecords[k][Len(OutputRecords[k])]

\* One cell "a,b" and the two cells "a", "b" have both been written by a
\* run with the comma: different records, one digest.
C13_Witness ==
    /\ delimiter = ","
    /\ Len(OutputRecords) = 3
    /\ inputFile[2] = << "a,b" >>
    /\ inputFile[3] = << "a", "b" >>
    /\ OutputRecords[2] = << "a,b", "b345e1dc09f20fdefdea469f09167892" >>
    /\ OutputRecords[3] = << "a", "b", "b345e1dc09f20fdefdea469f09167892" >>

====
